---- MODULE Spec2Model ----
(***************************************************************************)
(* Model of DARTH-git/NPS_time_to_event (python).                          *)
(*                                                                         *)
(*  - nps_nhpp (src/python/nps_nhpp.py): the batched categorical sampler,  *)
(*    one action per statement group of the function body.                 *)
(*  - the hazard-to-PMF transform of 02_homogeneous_cohort.py and          *)
(*    03_heterogeneous_cohort.py (lines 34-57, identical in both scripts). *)
(*                                                                         *)
(* Numbers.  Floats are modelled as exact fixed-point rationals.           *)
(* A probability or a uniform draw x is the integer x * Unit.  After the   *)
(* renormalisation of line 69 row i of a_probs is a_probs[i][k] /          *)
(* a_probs_den[i] (before it, a_probs_den[i] = Unit).  Rationals are       *)
(* compared exactly (RatGE).  Hazards, S_t, F_t, p_t are integers in units *)
(* of 1/FUnit.  Column positions are 0-based as in numpy; sequences are    *)
(* 1-based, so position k is element k+1.                                  *)
(***************************************************************************)
EXTENDS Integers, Sequences, FiniteSets, TLC

VARIABLES
    \* ---- nps_nhpp ----
    pc,                   \* position in nps_nhpp
    arg_probs,            \* the caller's a_probs argument (never mutated)
    arg_categories,       \* the caller's a_categories argument
    correction,           \* the correction argument
    a_probs,              \* local a_probs, numerators
    a_probs_den,          \* local a_probs, per-row denominator
    a_categories,         \* local a_categories: [kind, data]
    a_unif_probs,         \* the (n,1) column of uniform draws
    a_cum_probs,          \* row-wise cumulative sums (numerators)
    comparison_result,    \* boolean matrix a_cum_probs >= a_unif_probs
    positions,            \* argmax per row, 0-based
    corresponding_values, \* [kind, data]
    printed,              \* the warning of line 60 was printed
    outcome,              \* "running" | "returned" | "IndexError"
    result,               \* what the caller receives: [kind, data]
    \* ---- hazard-to-PMF transform ----
    bpc,                  \* position in the script
    Rate,                 \* df_mort_data_1["Rate"], per stratum, sorted by Age
    H_t, S_t, F_t, p_t,   \* derived columns of df_mort_data_1, per stratum
    df_mort_append_0,     \* the appended rows, per stratum
    df_mort_data_2        \* the concatenated, sorted table, per stratum

svars == <<pc, arg_probs, arg_categories, correction, a_probs, a_probs_den,
           a_categories, a_unif_probs, a_cum_probs, comparison_result,
           positions, corresponding_values, printed, outcome, result>>
bvars == <<bpc, Rate, H_t, S_t, F_t, p_t, df_mort_append_0, df_mort_data_2>>
vars == <<svars, bvars>>

----------------------------------------------------------------------------
\* Bounds of the model.

\* largest matrix handed to nps_nhpp: n_rows * n_categories <= MaxCells
MaxCells == 4
\* largest number of strata (Sex groups) in the life table
MaxStrata == 2
\* largest number of observed categories (ages) per stratum
MaxAges == 2

\* Resolution of probabilities and draws: 1/Unit.  With this resolution the
\* np.isclose tolerance 1e-8 + 1e-5 is two units.
Unit == 2 * (10 ^ 5)
Half == Unit \div 2
\* entries of a_probs
PVals == {0, Half - 1, Half + 1}
\* values np.random.uniform can return, all in [0, 1)
UVals == {0, Half + 1, Unit - 1}
\* correction arguments: the two recognised ones and another string
Corrections == {"none", "uniform", "linear"}

\* Resolution of the life-table columns: 1/FUnit.
FUnit == 10 ^ 4
\* hazard increments (Rate): 0, 0.01, 0.5
RateVals == {0, FUnit \div 100, FUnit \div 2}

----------------------------------------------------------------------------
\* Helpers for arrays.

RECURSIVE SumTo(_, _)
\* row[1] + ... + row[k]
SumTo(row, k) == IF k = 0 THEN 0 ELSE SumTo(row, k - 1) + row[k]

\* a_probs.sum(axis = 1), one row
RowSum(row) == SumTo(row, Len(row))

Abs(x) == IF x < 0 THEN -x ELSE x

\* np.arange(lo, hi)
Arange(lo, hi) == [k \in 1..(hi - lo) |-> lo + k - 1]

RECURSIVE RatGE(_, _, _, _)
\* a/b >= c/d for a, c >= 0 and b, d > 0, by the Euclidean expansion, so
\* that no product leaves the integer range.
RatGE(a, b, c, d) ==
    IF (a \div b) # (c \div d) THEN (a \div b) > (c \div d)
    ELSE IF c % d = 0 THEN TRUE
    ELSE IF a % b = 0 THEN FALSE
    ELSE RatGE(d, c % d, b, a % b)

\* a/b > c/d
RatGT(a, b, c, d) == ~RatGE(c, d, a, b)

----------------------------------------------------------------------------
\* nps_nhpp: the operators of its statements.

\* a_probs.shape[0] and a_probs.shape[1]
NRows == Len(arg_probs)
NCols == Len(arg_probs[1])

\* np.isclose(a, b) with the defaults rtol = 1e-5, atol = 1e-8, for a and b
\* in units of 1/Unit:  |a - b| <= atol + rtol * |b|
IsClose(a, b) == Abs(a - b) <= (Unit + 1000 * Abs(b)) \div (10 ^ 8)

\* all(np.isclose(a_probs.sum(axis = 1), 1))
AllClose(probs) == \A i \in 1..Len(probs) : IsClose(RowSum(probs[i]), Unit)

\* Mutant of RowDivisors: every row divided by the first row's sum.
RowDivisors_FirstRow(probs) == [i \in 1..Len(probs) |-> RowSum(probs[1])]

\* a_probs / a_probs.sum(axis=1, keepdims=True): the divisor of each row
RowDivisors(probs) == [i \in 1..Len(probs) |-> RowSum(probs[i])]

\* np.cumsum(a_probs, axis = 1)
CumSum(probs) ==
    [i \in 1..Len(probs) |-> [k \in 1..Len(probs[i]) |-> SumTo(probs[i], k)]]

\* Mutant of GreaterEqual: strict comparison, a_cum_probs > a_unif_probs.
GreaterEqual_Strict(cum, den, unif) ==
    [i \in 1..Len(cum) |->
        [k \in 1..Len(cum[i]) |-> RatGT(cum[i][k], den[i], unif[i], Unit)]]

\* a_cum_probs >= a_unif_probs, the (n,1) column broadcast along the columns
GreaterEqual(cum, den, unif) ==
    [i \in 1..Len(cum) |->
        [k \in 1..Len(cum[i]) |-> RatGE(cum[i][k], den[i], unif[i], Unit)]]

BoolToInt(b) == IF b THEN 1 ELSE 0

RECURSIVE ArgMaxFrom(_, _, _)
\* scan of np.argmax: the first position holding the maximum
ArgMaxFrom(row, k, best) ==
    IF k > Len(row) THEN best - 1
    ELSE IF BoolToInt(row[k]) > BoolToInt(row[best])
         THEN ArgMaxFrom(row, k + 1, k)
         ELSE ArgMaxFrom(row, k + 1, best)

\* np.argmax(comparison_result, axis = 1), 0-based
ArgMax(cmp) == [i \in 1..Len(cmp) |-> ArgMaxFrom(cmp[i], 2, 1)]

\* a_categories[positions] raises IndexError when a position is out of range
IndexInRange(cats, pos) == \A i \in 1..Len(pos) : pos[i] < Len(cats)

\* Mutant of TakeCategories: the positions themselves, labels ignored.
TakeCategories_Positions(cats, pos) == pos

\* a_categories[positions]
TakeCategories(cats, pos) == [i \in 1..Len(pos) |-> cats[pos[i] + 1]]

\* corresponding_values + a_unif_probs: shape (n,) plus shape (n,1)
\* broadcasts to (n,n), element [i][j] = corresponding_values[j] + u[i].
\* Values are in units of 1/Unit.
AddUniform(vals, unif) ==
    [i \in 1..Len(unif) |-> [j \in 1..Len(vals) |-> vals[j] * Unit + unif[i]]]

Unbound == [kind |-> "unbound", data |-> <<>>]
NoneValue == [kind |-> "None", data |-> <<>>]

----------------------------------------------------------------------------
\* Inputs of nps_nhpp.

Shapes == {s \in (1..MaxCells) \X (1..MaxCells) : s[1] * s[2] <= MaxCells}
ProbRows(c) == {w \in [1..c -> PVals] : RowSum(w) > 0}
Matrices == UNION {[1..s[1] -> ProbRows(s[2])] : s \in Shapes}
\* a_categories: omitted, or labels 1..L with L one less than, equal to or
\* one more than the number of columns
CategoryArgs(c) ==
    {NoneValue} \cup
    {[kind |-> "array", data |-> Arange(1, L + 1)] : L \in {c - 1, c, c + 1}}

BuildIdle ==
    /\ bpc = "idle"
    /\ Rate = <<>> /\ H_t = <<>> /\ S_t = <<>> /\ F_t = <<>> /\ p_t = <<>>
    /\ df_mort_append_0 = <<>> /\ df_mort_data_2 = <<>>

Init ==
    /\ pc = "check"
    /\ arg_probs \in Matrices
    /\ arg_categories \in CategoryArgs(Len(arg_probs[1]))
    /\ correction \in Corrections
    /\ a_probs = arg_probs
    /\ a_probs_den = [i \in 1..Len(arg_probs) |-> Unit]
    /\ a_categories = arg_categories
    /\ a_unif_probs = <<>>
    /\ a_cum_probs = <<>>
    /\ comparison_result = <<>>
    /\ positions = <<>>
    /\ corresponding_values = Unbound
    /\ printed = FALSE
    /\ outcome = "running"
    /\ result = Unbound
    /\ BuildIdle

----------------------------------------------------------------------------
\* nps_nhpp, statement by statement.

\* lines 57-61
CheckCorrection ==
    /\ pc = "check"
    /\ IF correction \notin {"none", "uniform"}
       THEN printed' = TRUE /\ corresponding_values' = NoneValue
       ELSE UNCHANGED <<printed, corresponding_values>>
    /\ pc' = "categories"
    /\ UNCHANGED <<arg_probs, arg_categories, correction, a_probs, a_probs_den,
                   a_categories, a_unif_probs, a_cum_probs, comparison_result,
                   positions, outcome, result, bvars>>

\* lines 63-65
DefaultCategories ==
    /\ pc = "categories"
    /\ a_categories' =
          IF a_categories.kind = "None"
          THEN [kind |-> "array", data |-> Arange(0, Len(a_probs[1]))]
          ELSE a_categories
    /\ pc' = "normalise"
    /\ UNCHANGED <<arg_probs, arg_categories, correction, a_probs, a_probs_den,
                   a_unif_probs, a_cum_probs, comparison_result, positions,
                   corresponding_values, printed, outcome, result, bvars>>

\* lines 67-69
Normalise ==
    /\ pc = "normalise"
    /\ a_probs_den' =
          IF ~AllClose(a_probs) THEN RowDivisors(a_probs) ELSE a_probs_den
    /\ pc' = "draw"
    /\ UNCHANGED <<arg_probs, arg_categories, correction, a_probs,
                   a_categories, a_unif_probs, a_cum_probs, comparison_result,
                   positions, corresponding_values, printed, outcome, result,
                   bvars>>

\* lines 71-75: one draw per row
DrawUniform ==
    /\ pc = "draw"
    /\ \E u \in [1..Len(a_probs) -> UVals] : a_unif_probs' = u
    /\ pc' = "cumsum"
    /\ UNCHANGED <<arg_probs, arg_categories, correction, a_probs, a_probs_den,
                   a_categories, a_cum_probs, comparison_result, positions,
                   corresponding_values, printed, outcome, result, bvars>>

\* line 79
CumulativeProbs ==
    /\ pc = "cumsum"
    /\ a_cum_probs' = CumSum(a_probs)
    /\ pc' = "compare"
    /\ UNCHANGED <<arg_probs, arg_categories, correction, a_probs, a_probs_den,
                   a_categories, a_unif_probs, comparison_result, positions,
                   corresponding_values, printed, outcome, result, bvars>>

\* line 82
Compare ==
    /\ pc = "compare"
    /\ comparison_result' = GreaterEqual(a_cum_probs, a_probs_den, a_unif_probs)
    /\ pc' = "argmax"
    /\ UNCHANGED <<arg_probs, arg_categories, correction, a_probs, a_probs_den,
                   a_categories, a_unif_probs, a_cum_probs, positions,
                   corresponding_values, printed, outcome, result, bvars>>

\* line 85
Positions ==
    /\ pc = "argmax"
    /\ positions' = ArgMax(comparison_result)
    /\ pc' = "lookup"
    /\ UNCHANGED <<arg_probs, arg_categories, correction, a_probs, a_probs_den,
                   a_categories, a_unif_probs, a_cum_probs, comparison_result,
                   corresponding_values, printed, outcome, result, bvars>>

\* line 87: fancy indexing, IndexError leaves the function
Lookup ==
    /\ pc = "lookup"
    /\ IF IndexInRange(a_categories.data, positions)
       THEN /\ corresponding_values' =
                  [kind |-> "1d",
                   data |-> TakeCategories(a_categories.data, positions)]
            /\ pc' = "correct"
            /\ UNCHANGED outcome
       ELSE /\ outcome' = "IndexError"
            /\ pc' = "done"
            /\ UNCHANGED corresponding_values
    /\ UNCHANGED <<arg_probs, arg_categories, correction, a_probs, a_probs_den,
                   a_categories, a_unif_probs, a_cum_probs, comparison_result,
                   positions, printed, result, bvars>>

\* lines 89-90
Correct ==
    /\ pc = "correct"
    /\ corresponding_values' =
          IF correction = "uniform"
          THEN [kind |-> "2d",
                data |-> AddUniform(corresponding_values.data, a_unif_probs)]
          ELSE corresponding_values
    /\ pc' = "return"
    /\ UNCHANGED <<arg_probs, arg_categories, correction, a_probs, a_probs_den,
                   a_categories, a_unif_probs, a_cum_probs, comparison_result,
                   positions, printed, outcome, result, bvars>>

\* line 92
Return ==
    /\ pc = "return"
    /\ result' = corresponding_values
    /\ outcome' = "returned"
    /\ pc' = "done"
    /\ UNCHANGED <<arg_probs, arg_categories, correction, a_probs, a_probs_den,
                   a_categories, a_unif_probs, a_cum_probs, comparison_result,
                   positions, corresponding_values, printed, bvars>>

Next ==
    \/ CheckCorrection
    \/ DefaultCategories
    \/ Normalise
    \/ DrawUniform
    \/ CumulativeProbs
    \/ Compare
    \/ Positions
    \/ Lookup
    \/ Correct
    \/ Return

Spec == Init /\ [][Next]_vars

----------------------------------------------------------------------------
\* The hazard-to-PMF transform (02_homogeneous_cohort.py and
\* 03_heterogeneous_cohort.py, lines 34-57).  A stratum is a Sex group; its
\* rows are sorted by Age, and row k holds Age k-1.

\* Age given to the appended row (line 46)
TerminalAge == 101
\* np.nan in the H_t and Rate columns: no hazard is negative
NaN == -1

RECURSIVE ExpSeries(_, _, _)
\* term_n - term_(n+1) + ..., term_(n+1) = term_n * x / (n+1), in fixed point
ExpSeries(x, n, term) ==
    IF term = 0 THEN 0
    ELSE term - ExpSeries(x, n + 1, (term * x) \div (FUnit * (n + 1)))

\* np.exp(-x), for x >= 0 in units of 1/FUnit
ExpNeg(x) == ExpSeries(x, 0, FUnit)

\* df_grouped['Rate'].cumsum(), one group
GroupCumSum(rate) == [k \in 1..Len(rate) |-> SumTo(rate, k)]

\* Mutant of DiffFillNa: the NaN of the first difference is not filled (a
\* sum skips it).
DiffFillNa_NoFill(F) ==
    [k \in 1..Len(F) |-> IF k = 1 THEN 0 ELSE F[k] - F[k - 1]]

\* groupby('Sex')['F_t'].diff().fillna(df['F_t']), one group: the first
\* difference of a group is NaN and is filled with F_t
DiffFillNa(F) ==
    [k \in 1..Len(F) |-> IF k = 1 THEN F[1] ELSE F[k] - F[k - 1]]

\* groupby(["Sex"]).tail(1) with lines 46-51 applied, one group
AppendRow(F) ==
    LET last == F[Len(F)]
        p    == FUnit - last
        Fn   == last + p
    IN  [Age |-> TerminalAge, p_t |-> p, F_t |-> Fn, S_t |-> FUnit - Fn,
         H_t |-> NaN, Rate |-> NaN]

\* the rows of one group of df_mort_data_1
DataRows(rate, H, S, F, p) ==
    [k \in 1..Len(rate) |->
        [Age |-> k - 1, p_t |-> p[k], F_t |-> F[k], S_t |-> S[k],
         H_t |-> H[k], Rate |-> rate[k]]]

RECURSIVE InsertByAge(_, _)
InsertByAge(rows, r) ==
    IF rows = <<>> THEN <<r>>
    ELSE IF rows[Len(rows)].Age <= r.Age THEN Append(rows, r)
    ELSE Append(InsertByAge(SubSeq(rows, 1, Len(rows) - 1), r), rows[Len(rows)])

RECURSIVE SortByAge(_)
\* sort_values(by = ["Sex", "Year", "Age"]) within one group and year
SortByAge(rows) ==
    IF rows = <<>> THEN <<>>
    ELSE InsertByAge(SortByAge(SubSeq(rows, 1, Len(rows) - 1)), rows[Len(rows)])

\* pd.concat([df_mort_data_1, df_mort_append_0]) then sort, one group
ConcatSorted(rows, extra) == SortByAge(Append(rows, extra))

Strata == DOMAIN Rate

SamplerIdle ==
    /\ pc = "idle"
    /\ arg_probs = <<>> /\ arg_categories = NoneValue /\ correction = "none"
    /\ a_probs = <<>> /\ a_probs_den = <<>> /\ a_categories = NoneValue
    /\ a_unif_probs = <<>> /\ a_cum_probs = <<>> /\ comparison_result = <<>>
    /\ positions = <<>> /\ corresponding_values = Unbound
    /\ printed = FALSE /\ outcome = "running" /\ result = Unbound

HazardSeqs == UNION {[1..n -> RateVals] : n \in 1..MaxAges}

InitBuild ==
    /\ bpc = "H_t"
    /\ Rate \in UNION {[1..n -> HazardSeqs] : n \in 1..MaxStrata}
    /\ H_t = [s \in DOMAIN Rate |-> <<>>]
    /\ S_t = [s \in DOMAIN Rate |-> <<>>]
    /\ F_t = [s \in DOMAIN Rate |-> <<>>]
    /\ p_t = [s \in DOMAIN Rate |-> <<>>]
    /\ df_mort_append_0 = <<>>
    /\ df_mort_data_2 = <<>>
    /\ SamplerIdle

\* line 34
CumulativeHazard ==
    /\ bpc = "H_t"
    /\ H_t' = [s \in Strata |-> GroupCumSum(Rate[s])]
    /\ bpc' = "S_t"
    /\ UNCHANGED <<Rate, S_t, F_t, p_t, df_mort_append_0, df_mort_data_2, svars>>

\* line 35
Survival ==
    /\ bpc = "S_t"
    /\ S_t' = [s \in Strata |-> [k \in 1..Len(H_t[s]) |-> ExpNeg(H_t[s][k])]]
    /\ bpc' = "F_t"
    /\ UNCHANGED <<Rate, H_t, F_t, p_t, df_mort_append_0, df_mort_data_2, svars>>

\* line 36
Failure ==
    /\ bpc = "F_t"
    /\ F_t' = [s \in Strata |-> [k \in 1..Len(S_t[s]) |-> FUnit - S_t[s][k]]]
    /\ bpc' = "p_t"
    /\ UNCHANGED <<Rate, H_t, S_t, p_t, df_mort_append_0, df_mort_data_2, svars>>

\* line 37
Probability ==
    /\ bpc = "p_t"
    /\ p_t' = [s \in Strata |-> DiffFillNa(F_t[s])]
    /\ bpc' = "append"
    /\ UNCHANGED <<Rate, H_t, S_t, F_t, df_mort_append_0, df_mort_data_2, svars>>

\* lines 44-51
AppendTerminal ==
    /\ bpc = "append"
    /\ df_mort_append_0' = [s \in Strata |-> AppendRow(F_t[s])]
    /\ bpc' = "concat"
    /\ UNCHANGED <<Rate, H_t, S_t, F_t, p_t, df_mort_data_2, svars>>

\* lines 55-57
Concatenate ==
    /\ bpc = "concat"
    /\ df_mort_data_2' =
          [s \in Strata |->
              ConcatSorted(DataRows(Rate[s], H_t[s], S_t[s], F_t[s], p_t[s]),
                           df_mort_append_0[s])]
    /\ bpc' = "done"
    /\ UNCHANGED <<Rate, H_t, S_t, F_t, p_t, df_mort_append_0, svars>>

NextBuild ==
    \/ CumulativeHazard
    \/ Survival
    \/ Failure
    \/ Probability
    \/ AppendTerminal
    \/ Concatenate

SpecBuild == InitBuild /\ [][NextBuild]_vars

----------------------------------------------------------------------------
\* Properties of nps_nhpp (checked under Spec).

\* positions has been computed (line 85 has run)
Selected == pc \in {"lookup", "correct", "return", "done"}

\* the labels the caller supplied, or the default 0..n_categories-1
SuppliedLabels ==
    IF arg_categories.kind = "None" THEN 0..(NCols - 1)
    ELSE {arg_categories.data[k] : k \in 1..Len(arg_categories.data)}

\* the label of column k (0-based) for the caller
LabelOf(k) ==
    IF arg_categories.kind = "None" THEN k ELSE arg_categories.data[k + 1]

\* a_categories is omitted or has one label per column
CategoriesFit ==
    arg_categories.kind = "None" \/ Len(arg_categories.data) = NCols

Min(S) == CHOOSE x \in S : \A y \in S : x <= y

\* number of scalar values in a returned array
NumValues(r) ==
    IF r.kind = "1d" THEN Len(r.data)
    ELSE IF r.kind = "2d" THEN Len(r.data) * Len(r.data[1])
    ELSE 0

\* C1: with correction 'none', a call that returns hands back exactly n_rows
\* values, each one of the supplied a_categories (or of 0..n_categories-1
\* when a_categories is omitted); and the call does return whenever
\* a_categories is omitted or has one label per column.
C1_NoneReturnsOneLabelPerRow ==
    (pc = "done" /\ correction = "none") =>
        /\ outcome = "returned" =>
              /\ result.kind = "1d"
              /\ Len(result.data) = NRows
              /\ \A i \in 1..NRows : result.data[i] \in SuppliedLabels
        /\ CategoriesFit => outcome = "returned"

C1_Witness ==
    /\ pc = "done" /\ correction = "none" /\ outcome = "returned"
    /\ arg_categories.kind = "array"
    /\ NRows = 2
    /\ result.data[1] # result.data[2]

\* C3 (as claimed): with correction 'uniform' the call returns exactly
\* n_rows values and the value for row i is the label selected for row i
\* plus row i's own draw.
C3_UniformOneJitteredValuePerRow ==
    (pc = "done" /\ correction = "uniform" /\ outcome = "returned") =>
        /\ NumValues(result) = NRows
        /\ \A i \in 1..NRows :
              (IF result.kind = "2d" THEN result.data[i][1] ELSE result.data[i])
                  = LabelOf(positions[i]) * Unit + a_unif_probs[i]

\* C4 (as claimed): an unrecognised correction makes the call fail with
\* InvalidCorrectionModeError, no draw consumed, nothing returned.  Stated
\* for calls whose other arguments are valid, so that the correction is the
\* only contract violation.
C4_InvalidCorrectionFails ==
    (pc = "done" /\ correction \notin {"none", "uniform"} /\ CategoriesFit) =>
        /\ outcome = "InvalidCorrectionModeError"
        /\ a_unif_probs = <<>>
        /\ result.kind = "unbound"

\* C5 (as claimed): a row whose final cumulative probability is strictly
\* below its draw gets the last category, index n_categories - 1.
C5_ClampToLastCategory ==
    Selected =>
        \A i \in 1..NRows :
            ~RatGE(SumTo(a_probs[i], NCols), a_probs_den[i], a_unif_probs[i], Unit)
                => positions[i] = NCols - 1

\* the first column k (0-based) of row w where (w_0 + ... + w_k) / s >= u/Unit;
\* s/s = 1 > u/Unit, so one exists whenever s > 0
FirstScaled(w, s, u) ==
    Min({k \in 0..(Len(w) - 1) : RatGE(SumTo(w, k + 1), s, u, Unit)})

\* C6 (as claimed): every row whose sum s is not 1 is sampled as if divided
\* by its own sum: the selected index is the first k with
\* (w_0 + ... + w_k) / s >= u.  Stated for the draws that do not exceed the
\* row's own total s, where some column of the unscaled row reaches the draw
\* and the case of C5 plays no part.
C6_EveryInexactRowRescaled ==
    Selected =>
        \A i \in 1..NRows :
            (/\ RowSum(arg_probs[i]) # Unit
             /\ a_unif_probs[i] <= RowSum(arg_probs[i])) =>
                positions[i] =
                    FirstScaled(arg_probs[i], RowSum(arg_probs[i]), a_unif_probs[i])

\* C6 (amended): when some row sum of the matrix is not np.isclose to 1,
\* every row is sampled as if divided by its own sum (first k with
\* (w_0 + ... + w_k) / s >= u), never by another row's sum; when all row
\* sums are np.isclose to 1 no row is rescaled.
C6_RescaledWhenSomeRowNotClose ==
    Selected =>
        IF ~AllClose(arg_probs)
        THEN \A i \in 1..NRows :
                 positions[i] =
                     FirstScaled(arg_probs[i], RowSum(arg_probs[i]), a_unif_probs[i])
        ELSE \A i \in 1..NRows : a_probs_den[i] = Unit

C6_Witness ==
    /\ Selected
    /\ NRows = 2
    /\ IsClose(RowSum(arg_probs[1]), Unit)
    /\ ~IsClose(RowSum(arg_probs[2]), Unit)
    /\ RowSum(arg_probs[1]) # Unit
    /\ arg_probs[1][1] >= a_unif_probs[1]
    /\ positions[1] = 1

\* C8 (as claimed): supplied a_categories whose length differs from the
\* number of columns make the call fail with ShapeMismatchError at its
\* start: no draw taken, nothing returned.  Stated for calls with a
\* recognised correction, so that the length is the only contract violation.
C8_ShapeMismatchFails ==
    (/\ pc = "done"
     /\ correction \in {"none", "uniform"}
     /\ arg_categories.kind = "array"
     /\ Len(arg_categories.data) # NCols) =>
        /\ outcome = "ShapeMismatchError"
        /\ a_unif_probs = <<>>
        /\ result.kind = "unbound"

\* every row of the matrix passed in sums to exactly 1
Normalized == \A i \in 1..NRows : RowSum(arg_probs[i]) = Unit

\* C9: for a normalized matrix, each row gets the smallest column index k
\* with p_0 + ... + p_k >= u for that row's own p and u (a tie
\* p_0 + ... + p_k = u selects k), and the value handed back for the row is
\* a_categories[k].
C9_FirstColumnReachingDraw ==
    (Selected /\ Normalized) =>
        \A i \in 1..NRows :
            LET hits == {k \in 0..(NCols - 1) :
                            SumTo(arg_probs[i], k + 1) >= a_unif_probs[i]}
            IN  hits # {} =>
                  /\ positions[i] = Min(hits)
                  /\ result.kind = "1d" => result.data[i] = LabelOf(Min(hits))

C9_Witness ==
    /\ pc = "done" /\ outcome = "returned" /\ result.kind = "1d"
    /\ Normalized
    /\ NRows = 2
    /\ arg_categories.kind = "array"
    /\ positions[1] = 0 /\ SumTo(arg_probs[1], 1) = a_unif_probs[1]
    /\ positions[2] = 1

\* C10 (as claimed): the selected category never has probability 0 in a
\* row that sums to 1, for every draw in [0,1), u = 0 included.
C10_NeverZeroProbability ==
    Selected =>
        \A i \in 1..NRows :
            RowSum(arg_probs[i]) = Unit => arg_probs[i][positions[i] + 1] > 0

----------------------------------------------------------------------------
\* Properties of the hazard-to-PMF transform (checked under SpecBuild).

RECURSIVE SumP(_, _)
\* p_t of rows[1] + ... + p_t of rows[k]
SumP(rows, k) == IF k = 0 THEN 0 ELSE SumP(rows, k - 1) + rows[k].p_t

\* C2: for every stratum the completed PMF (the observed categories and
\* the appended terminal bucket) sums to exactly 1.
C2_CompletedPMFSumsToOne ==
    bpc = "done" =>
        \A s \in Strata :
            /\ Len(df_mort_data_2[s]) = Len(Rate[s]) + 1
            /\ SumP(df_mort_data_2[s], Len(df_mort_data_2[s])) = FUnit

C2_Witness ==
    /\ bpc = "done"
    /\ Len(Rate) = 2
    /\ Len(Rate[1]) = 2 /\ Rate[1][1] > 0 /\ Rate[1][2] > 0
    /\ Len(Rate[2]) = 1 /\ Rate[2][1] > 0
    /\ df_mort_data_2[1][2].p_t > 0
    /\ df_mort_data_2[1][3].p_t > 0

\* C7 (as claimed): each stratum gets exactly one synthetic terminal
\* category, its index is the stratum's maximum observed category + 1 and
\* its mass is 1 - F(last observed).
C7_TerminalCategoryIsNext ==
    bpc = "done" =>
        \A s \in Strata :
            LET n     == Len(Rate[s])
                rows  == df_mort_data_2[s]
                extra == {k \in 1..Len(rows) : rows[k].Age > n - 1}
            IN  /\ Cardinality(extra) = 1
                /\ \A k \in extra :
                      /\ rows[k].Age = n
                      /\ rows[k].p_t = FUnit - F_t[s][n]

====
